---- MODULE Spec2Model ----
(***************************************************************************)
(* Live transcription pipeline of Midnight-Investigator:                   *)
(*   backend/utils/online_asr.py  HypothesisBuffer, OnlineASRProcessor     *)
(*   backend/main.py              live_transcribe_endpoint and its         *)
(*                                background task ffmpeg_stdout_reader     *)
(*                                                                         *)
(* Times are kept in ticks of 1/16000 s (one tick per sample), so that the *)
(* code's seconds are exact integers here: 1.0 s = 16000 ticks.            *)
(* A text is a sequence of one-character strings; "" is << >>.             *)
(***************************************************************************)
EXTENDS Integers, Sequences, FiniteSets, TLC

VARIABLES
    main,               \* position of live_transcribe_endpoint
    exit_path,          \* which exit path led into the finally block
    ffmpeg_process,     \* the Popen object, or NoneObj
    online,             \* the OnlineASRProcessor, or NoneObj
    reader,             \* position of the ffmpeg_stdout_reader task
    read_size,          \* size requested by the read in flight
    pcm_buffer,         \* number of bytes in pcm_buffer
    full_transcription, \* the reader's running transcript
    ws,                 \* the client connection
    inbox,              \* client frames received and not yet read by the endpoint
    outbound,           \* messages handed to websocket.send_json, in order
    final,              \* the tuple finish() returned in the finally block
    finish_calls,       \* number of finish() calls of the session
    stop_calls,         \* number of executions of the decoder stop sequence
    reads,              \* number of decoder reads started (chunks inserted, when driven directly)
    frames,             \* number of frames the client has sent
    calls,              \* number of process_iter calls made on the processor
    given,              \* a directly driven HypothesisBuffer as it was before the call
    returned            \* what the last direct call returned (and left behind)

vars == << main, exit_path, ffmpeg_process, online, reader, read_size, pcm_buffer,
           full_transcription, ws, inbox, outbound, final, finish_calls,
           stop_calls, reads, frames, calls, given, returned >>

sessionVars == << main, exit_path, ffmpeg_process, reader, read_size, pcm_buffer,
                  full_transcription, ws, inbox, outbound, final, finish_calls,
                  stop_calls, reads, frames >>

----------------------------------------------------------------------------
(* Bounds of the model *)

MaxReads == 4           \* decoder reads per session
MaxFrames == 1          \* frames a client sends per session
MaxCalls == 4           \* process_iter calls on a processor driven directly
MaxInserts == 6         \* insert_audio_chunk calls on a processor driven directly

----------------------------------------------------------------------------
(* Program constants *)

SAMPLING_RATE == 16000
SAMPLE_RATE == 16000
BYTES_PER_SAMPLE == 2
MIN_CHUNK_SIZE == 1
BYTES_PER_SEC == SAMPLE_RATE * MIN_CHUNK_SIZE * BYTES_PER_SAMPLE
buffer_trimming_sec == 15
keep_duration == 5

\* Python's None where a number is expected (times are never negative).
None == -1
\* Python's None where an object is expected.
NoneObj == [isNone |-> TRUE]

----------------------------------------------------------------------------
(* Strings *)

SP == " "

\* sep.join(texts) with sep = " "
RECURSIVE Join(_)
Join(texts) ==
    IF Len(texts) = 0 THEN << >>
    ELSE IF Len(texts) = 1 THEN texts[1]
    ELSE texts[1] \o <<SP>> \o Join(Tail(texts))

RECURSIVE LStrip(_)
LStrip(s) == IF Len(s) > 0 /\ s[1] = SP THEN LStrip(Tail(s)) ELSE s

RECURSIVE RStrip(_)
RStrip(s) ==
    IF Len(s) > 0 /\ s[Len(s)] = SP THEN RStrip(SubSeq(s, 1, Len(s) - 1)) ELSE s

\* str.strip()
Strip(s) == RStrip(LStrip(s))

Texts(tokens) == [i \in 1..Len(tokens) |-> tokens[i][3]]

----------------------------------------------------------------------------
(* HypothesisBuffer *)

HypothesisBufferInit ==
    [ commited_in_buffer |-> << >>,
      buffer |-> << >>,
      new |-> << >>,
      last_commited_time |-> 0,
      last_commited_word |-> << >> ]

insert(hb, new, offset) ==
    [hb EXCEPT !.new =
        [i \in 1..Len(new) |-> << new[i][1] + offset, new[i][2] + offset, new[i][3] >>]]

\* The while loop of flush: one iteration per recursive step.
RECURSIVE FlushLoop(_, _)
FlushLoop(hb, commit) ==
    IF Len(hb.new) = 0 THEN [hb |-> hb, commit |-> commit]
    ELSE IF Len(hb.buffer) = 0 THEN [hb |-> hb, commit |-> commit]
    ELSE IF hb.new[1][3] = hb.buffer[1][3]
         THEN FlushLoop([hb EXCEPT !.last_commited_word = hb.new[1][3],
                                   !.last_commited_time = hb.new[1][2],
                                   !.buffer = Tail(hb.buffer),
                                   !.new = Tail(hb.new)],
                        Append(commit, hb.new[1]))
         ELSE [hb |-> hb, commit |-> commit]

\* A flush that resynchronises on a mismatch instead of stopping.
RECURSIVE FlushLoopSkip(_, _)
FlushLoopSkip(hb, commit) ==
    IF Len(hb.new) = 0 THEN [hb |-> hb, commit |-> commit]
    ELSE IF Len(hb.buffer) = 0 THEN [hb |-> hb, commit |-> commit]
    ELSE IF hb.new[1][3] = hb.buffer[1][3]
         THEN FlushLoopSkip([hb EXCEPT !.last_commited_word = hb.new[1][3],
                                       !.last_commited_time = hb.new[1][2],
                                       !.buffer = Tail(hb.buffer),
                                       !.new = Tail(hb.new)],
                            Append(commit, hb.new[1]))
         ELSE FlushLoopSkip([hb EXCEPT !.buffer = Tail(hb.buffer)], commit)

flush_skip(hb) ==
    LET r == FlushLoopSkip(hb, << >>)
    IN  [ hb |-> [r.hb EXCEPT !.buffer = r.hb.new,
                              !.new = << >>,
                              !.commited_in_buffer = @ \o r.commit],
          commit |-> r.commit ]

\* A flush that keeps the unmatched rest of the old provisional.
flush_keeps(hb) ==
    LET r == FlushLoop(hb, << >>)
    IN  [ hb |-> [r.hb EXCEPT !.buffer = r.hb.buffer \o r.hb.new,
                              !.new = << >>,
                              !.commited_in_buffer = @ \o r.commit],
          commit |-> r.commit ]

\* flush(): the new buffer state and the returned commit list
flush(hb) ==
    LET r == FlushLoop(hb, << >>)
    IN  [ hb |-> [r.hb EXCEPT !.buffer = r.hb.new,
                              !.new = << >>,
                              !.commited_in_buffer = @ \o r.commit],
          commit |-> r.commit ]

RECURSIVE pop_commited(_, _)
pop_commited(hb, time) ==
    IF Len(hb.commited_in_buffer) > 0 /\ hb.commited_in_buffer[1][2] <= time
    THEN pop_commited([hb EXCEPT !.commited_in_buffer = Tail(@)], time)
    ELSE hb

\* A complete() that hands out the incoming tokens instead of the provisional.
complete_new(hb) == hb.new

complete(hb) == hb.buffer

----------------------------------------------------------------------------
(* The ASR engine (external): what asr.transcribe may return for a window *)

Vocab == << <<"h">>, <<"w">>, <<"t">> >>

\* The word spoken during absolute second s of the stream.
Word(s) == Vocab[(s % Len(Vocab)) + 1]

WindowLen(ab) == ab.hi - ab.lo

\* One segment per whole second of the window, window-relative times, no
\* word-level timestamps (transcribe is called without word_timestamps).
Segments(ab) ==
    [ j \in 1..(WindowLen(ab) \div SAMPLING_RATE) |->
        [ start |-> (j - 1) * SAMPLING_RATE,
          end |-> j * SAMPLING_RATE,
          text |-> Word((ab.lo \div SAMPLING_RATE) + j - 1),
          no_speech_prob |-> 0,
          words |-> << >> ] ]

SegTexts(segs) == [i \in 1..Len(segs) |-> segs[i].text]

\* The engine re-transcribes the whole window; the most recent word is
\* unstable and may come out differently ("x") in this pass.
Stable(ab) ==
    LET segs == Segments(ab)
    IN  [text |-> Join(SegTexts(segs)), segments |-> segs]

Unstable(ab) ==
    LET segs == Segments(ab)
        segs2 == IF Len(segs) = 0 THEN segs
                 ELSE [segs EXCEPT ![Len(segs)].text = <<"x">>]
    IN  [text |-> Join(SegTexts(segs2)), segments |-> segs2]

Transcribe(ab) == {Stable(ab), Unstable(ab)}

----------------------------------------------------------------------------
(* OnlineASRProcessor *)

\* init(): the state set up by the constructor
OnlineInit ==
    [ audio_buffer |-> [lo |-> 0, hi |-> 0],
      transcript_buffer |-> HypothesisBufferInit,
      buffer_time_offset |-> 0,
      commited |-> << >> ]

\* audio_buffer is the run [lo, hi) of the stream's samples, by absolute index.
insert_audio_chunk(o, n) == [o EXCEPT !.audio_buffer.hi = @ + n]

to_flush(sents) ==
    IF Len(sents) = 0 THEN << None, None, << >> >>
    ELSE << sents[1][1], sents[Len(sents)][2], Join(Texts(sents)) >>

RECURSIVE PromptK(_, _)
PromptK(o, k) ==
    IF k > 1 /\ o.commited[k][1] > o.buffer_time_offset THEN PromptK(o, k - 1) ELSE k

Max(a, b) == IF a > b THEN a ELSE b
Min(a, b) == IF a < b THEN a ELSE b

\* _get_prompt(); k is the 1-based index of the code's commited[k].
get_prompt(o) ==
    IF Len(o.commited) = 0 THEN << >>
    ELSE LET k == PromptK(o, Len(o.commited))
             p == Join(Texts(SubSeq(o.commited, Max(1, k - 10), k)))
         IN  IF Len(p) > 200 THEN SubSeq(p, Len(p) - 199, Len(p)) ELSE p

WordTokens(ws_) == [i \in 1..Len(ws_) |-> << ws_[i].start, ws_[i].end, ws_[i].word >>]

\* segment.get("no_speech_prob", 0), in hundredths; None: the field is absent
get_no_speech_prob(s) == IF s.no_speech_prob = None THEN 0 ELSE s.no_speech_prob

\* A test that also skips a segment whose probability is exactly 0.9.
SkippedFrom90(s) == get_no_speech_prob(s) >= 90

\* if segment.get("no_speech_prob", 0) > 0.9: continue
Skipped(s) == get_no_speech_prob(s) > 90

RECURSIVE SegmentTokens(_)
SegmentTokens(segs) ==
    IF Len(segs) = 0 THEN << >>
    ELSE LET s == segs[1]
             rest == SegmentTokens(Tail(segs))
         IN  IF Skipped(s) THEN rest
             ELSE IF Len(s.words) > 0 THEN WordTokens(s.words) \o rest
             ELSE << << s.start, s.end, s.text >> >> \o rest

\* _extract_words(result); no_speech_prob is in hundredths.
extract_words(o, result) ==
    IF Len(result.text) = 0 THEN << >>
    ELSE IF Len(result.segments) > 0 THEN SegmentTokens(result.segments)
    ELSE << << 0, WindowLen(o.audio_buffer), result.text >> >>

\* int(trim_time * SAMPLING_RATE) for a window of n samples, as IEEE-754
\* doubles evaluate (n / 16000 - 5.0) * 16000. The quotient n / 16000 in
\* [2^e, 2^(e+1)) is rounded to a multiple of 2^(e-52); when it is rounded
\* down, by r / 125 units in the last place with r = (n * 2^(45-e)) mod 125,
\* the product comes out r * 2^(e-45) below the integer n - 80000, and is
\* rounded to the double just below that integer when r * 2^(e-45) exceeds
\* half the spacing of doubles at n - 80000; int() then truncates to
\* n - 80001. That happens for 33 <= r <= 62 when the quotient is in [16, 32)
\* and the product below 2^18 (2^41 mod 125 = 52), and when the quotient is in
\* [32, 64) and the product below 2^19 (2^40 mod 125 = 26).
\* Exact for 240000 < n < 1024000; _trim_buffer runs only when n > 240000.
Lossy(n, lo, hi, pow) ==
    LET r == ((n % 125) * pow) % 125
    IN  n >= lo /\ n < hi /\ r >= 33 /\ r <= 62

\* A cut that takes the whole window.
cut_samples_all(n) == n

cut_samples(n) ==
    IF Lossy(n, 256000, 342144, 52) \/ Lossy(n, 512000, 604288, 26)
    THEN n - keep_duration * SAMPLING_RATE - 1
    ELSE n - keep_duration * SAMPLING_RATE

\* A trim that moves the offset back instead of forward.
trim_buffer_back(o) ==
    IF Len(o.commited) = 0 THEN o
    ELSE LET n == WindowLen(o.audio_buffer)
             trim_time == n - keep_duration * SAMPLING_RATE
             offset == o.buffer_time_offset - trim_time
         IN  IF trim_time > 0
             THEN [o EXCEPT !.audio_buffer.lo = @ + Min(cut_samples(n), n),
                            !.buffer_time_offset = offset,
                            !.transcript_buffer = pop_commited(@, offset)]
             ELSE o

\* A trim that also drops the committed tokens that ended before the new
\* start of the window.
trim_buffer_forgets(o) ==
    IF Len(o.commited) = 0 THEN o
    ELSE LET n == WindowLen(o.audio_buffer)
             trim_time == n - keep_duration * SAMPLING_RATE
             offset == o.buffer_time_offset + trim_time
             recent(t) == t[2] > offset
         IN  IF trim_time > 0
             THEN [o EXCEPT !.audio_buffer.lo = @ + Min(cut_samples(n), n),
                            !.buffer_time_offset = offset,
                            !.transcript_buffer = pop_commited(@, offset),
                            !.commited = SelectSeq(@, recent)]
             ELSE o

\* _trim_buffer()
trim_buffer(o) ==
    IF Len(o.commited) = 0 THEN o
    ELSE LET n == WindowLen(o.audio_buffer)
             trim_time == n - keep_duration * SAMPLING_RATE
             offset == o.buffer_time_offset + trim_time
         IN  IF trim_time > 0
             THEN [o EXCEPT !.audio_buffer.lo = @ + Min(cut_samples(n), n),
                            !.buffer_time_offset = offset,
                            !.transcript_buffer = pop_commited(@, offset)]
             ELSE o

\* The passes of process_iter after the empty-window test: asr.transcribe is
\* called once and returns result.
process_iter_pass(o, result) ==
    LET prompt == get_prompt(o)
        tsw == extract_words(o, result)
        f == flush(insert(o.transcript_buffer, tsw, o.buffer_time_offset))
        o1 == [o EXCEPT !.transcript_buffer = f.hb,
                        !.commited = @ \o f.commit]
        o2 == IF WindowLen(o1.audio_buffer) > buffer_trimming_sec * SAMPLING_RATE
              THEN trim_buffer(o1)
              ELSE o1
    IN  [online |-> o2, ret |-> to_flush(f.commit), asr_calls |-> 1]

\* A process_iter that runs the pass on an empty window too.
process_iter_unguarded(o, result) == process_iter_pass(o, result)

\* process_iter() when asr.transcribe, if called, returns result: the new
\* processor state, the returned tuple, and the number of calls made to
\* asr.transcribe.
process_iter(o, result) ==
    IF WindowLen(o.audio_buffer) = 0
    THEN [online |-> o, ret |-> << None, None, << >> >>, asr_calls |-> 0]
    ELSE process_iter_pass(o, result)

\* finish()
finish(o) == to_flush(complete(o.transcript_buffer))

----------------------------------------------------------------------------
(* The decoder process and the socket *)

\* The Popen object start_ffmpeg_decoder returns.
\* stdin_full, stdout_full: the pipe to the decoder's input, from its output,
\* holds as much as the operating system lets it hold.
Popen ==
    [ stdin_closed |-> FALSE, stdout_closed |-> FALSE, eof |-> FALSE,
      killed |-> FALSE, stdin_full |-> FALSE, stdout_full |-> FALSE ]

\* A stop sequence that leaves the decoder's output open.
StopDecoderLeavesStdout(p, exits) ==
    [p EXCEPT !.stdin_closed = TRUE,
              !.killed = ~exits]

\* The stop sequence of the finally block: stdin.close(), stdout.close(),
\* wait(timeout=1), and kill() when the wait times out. exits: the process
\* has left, or leaves within the second.
StopDecoder(p, exits) ==
    [p EXCEPT !.stdin_closed = TRUE,
              !.stdout_closed = TRUE,
              !.killed = ~exits]

\* Python truthiness of a number or None
Truthy(x) == x # None /\ x # 0

NoTimestamp == << >>

\* The response built by ffmpeg_stdout_reader after one process_iter.
Response(ret, buffer_text, full_text) ==
    [ transcript |-> ret[3],
      buffer |-> buffer_text,
      full_text |-> full_text,
      timestamp |-> IF Truthy(ret[1]) THEN << ret[1], ret[2] >> ELSE NoTimestamp,
      final |-> FALSE ]

\* The message of the finally block.
FinalMessage(f) ==
    [ transcript |-> f[3],
      buffer |-> << >>,
      full_text |-> f[3],
      timestamp |-> << f[1], f[2] >>,
      final |-> TRUE ]

\* full_transcription after a pass that returned transcript
UpdateFull(full, transcript) ==
    IF Len(transcript) > 0 THEN Strip(full \o <<SP>> \o transcript) ELSE full

\* read_size for the time dt (in tenths of a second) since the last read:
\* elapsed = max(0.1, dt); min(32000 * int(elapsed) + 4096, 64000)
ReadSize(dt) == Min(32000 * (Max(1, dt) \div 10) + 4096, 64000)

\* Times between two reads the model draws from (tenths of a second).
Elapsed == {0, 25}

\* Lengths of a read that hit the end of the decoder's output before
\* read_size bytes arrived (a BufferedReader returns fewer bytes only then).
ShortReads(size) == {n \in {0, 31999, 32000} : n < size}

----------------------------------------------------------------------------
(* live_transcribe_endpoint *)

Init ==
    /\ main = "start"
    /\ exit_path = "none"
    /\ ffmpeg_process = NoneObj
    /\ online = NoneObj
    /\ reader = "none"
    /\ read_size = 0
    /\ pcm_buffer = 0
    /\ full_transcription = << >>
    /\ ws = "connected"
    /\ inbox = << >>
    /\ outbound = << >>
    /\ final = << None, None, << >> >>
    /\ finish_calls = 0
    /\ stop_calls = 0
    /\ reads = 0
    /\ frames = 0
    /\ calls = 0
    /\ given = NoneObj
    /\ returned = NoneObj

\* The event loop runs one coroutine at a time: the reader task only runs
\* while the endpoint is suspended in an await (or has returned).
EndpointSuspended == main \in {"receive", "final_sent", "closed"}

\* ffmpeg_process = await start_ffmpeg_decoder(), or its exception
StartDecoder ==
    /\ main = "start"
    /\ \/ /\ ffmpeg_process' = Popen
          /\ main' = "load"
          /\ UNCHANGED exit_path
       \/ /\ main' = "finally"
          /\ exit_path' = "setup"
          /\ UNCHANGED ffmpeg_process
    /\ UNCHANGED << online, reader, read_size, pcm_buffer, full_transcription, ws,
                    inbox, outbound, final, finish_calls, stop_calls, reads,
                    frames, calls >>
    /\ UNCHANGED << given, returned >>

\* A setup that logs the failed load and goes on to the main loop.
LoadModelGoesOn ==
    /\ main = "load"
    /\ \/ /\ online' = OnlineInit
          /\ reader' = "top"
          /\ main' = "receive"
          /\ UNCHANGED exit_path
       \/ /\ main' = "receive"
          /\ exit_path' = "setup"
          /\ UNCHANGED << online, reader >>
    /\ UNCHANGED << ffmpeg_process, read_size, pcm_buffer, full_transcription, ws,
                    inbox, outbound, final, finish_calls, stop_calls, reads,
                    frames, calls >>
    /\ UNCHANGED << given, returned >>

\* model = _load_model(); online = OnlineASRProcessor(...); create_task(...)
LoadModel ==
    /\ main = "load"
    /\ \/ /\ online' = OnlineInit
          /\ reader' = "top"
          /\ main' = "receive"
          /\ UNCHANGED exit_path
       \/ /\ main' = "finally"
          /\ exit_path' = "setup"
          /\ UNCHANGED << online, reader >>
    /\ UNCHANGED << ffmpeg_process, read_size, pcm_buffer, full_transcription, ws,
                    inbox, outbound, final, finish_calls, stop_calls, reads,
                    frames, calls >>
    /\ UNCHANGED << given, returned >>

\* message = await websocket.receive_bytes() delivers a binary frame, which
\* is written to the decoder's stdin and flushed; the write raises when the
\* decoder process has gone.
ReceiveFrame ==
    /\ main = "receive"
    /\ Len(inbox) > 0
    /\ Head(inbox) = "bytes"
    /\ inbox' = Tail(inbox)
    /\ \/ UNCHANGED << main, exit_path >>
       \/ main' = "finally" /\ exit_path' = "error"
    /\ UNCHANGED << ffmpeg_process, online, reader, read_size, pcm_buffer,
                    full_transcription, ws, outbound, final, finish_calls,
                    stop_calls, reads, frames, calls >>
    /\ UNCHANGED << given, returned >>

\* receive_bytes() raises on a frame that carries no bytes.
ReceiveBadFrame ==
    /\ main = "receive"
    /\ Len(inbox) > 0
    /\ Head(inbox) = "text"
    /\ inbox' = Tail(inbox)
    /\ main' = "finally"
    /\ exit_path' = "error"
    /\ UNCHANGED << ffmpeg_process, online, reader, read_size, pcm_buffer,
                    full_transcription, ws, outbound, final, finish_calls,
                    stop_calls, reads, frames, calls >>
    /\ UNCHANGED << given, returned >>

\* receive_bytes() raises WebSocketDisconnect once the client has left.
ReceiveDisconnect ==
    /\ main = "receive"
    /\ Len(inbox) = 0
    /\ ws = "disconnected"
    /\ main' = "finally"
    /\ exit_path' = "disconnect"
    /\ UNCHANGED << ffmpeg_process, online, reader, read_size, pcm_buffer,
                    full_transcription, ws, inbox, outbound, final, finish_calls,
                    stop_calls, reads, frames, calls >>
    /\ UNCHANGED << given, returned >>

\* A finally block that sends the final message from two places.
FinalSendsTwice(f, conn) ==
    IF Len(f[3]) > 0 /\ conn = "connected"
    THEN << FinalMessage(f), FinalMessage(f) >>
    ELSE << >>

\* The messages the finally block manages to send for the finish() result f:
\* send_json raises on a connection the client has left, and the bare except
\* swallows it.
FinalSends(f, conn) ==
    IF Len(f[3]) > 0 /\ conn = "connected" THEN << FinalMessage(f) >> ELSE << >>

\* The finally block, up to its first await.
Finally ==
    /\ main = "finally"
    /\ \E exits \in BOOLEAN :
        IF ffmpeg_process # NoneObj
        THEN /\ ffmpeg_process' = StopDecoder(ffmpeg_process, exits)
             /\ stop_calls' = stop_calls + 1
        ELSE /\ exits
             /\ UNCHANGED << ffmpeg_process, stop_calls >>
    /\ IF online # NoneObj
       THEN /\ final' = finish(online)
            /\ finish_calls' = finish_calls + 1
            /\ outbound' = outbound \o FinalSends(final', ws)
            /\ IF Len(final'[3]) > 0 /\ ws = "connected"
               THEN main' = "final_sent" /\ UNCHANGED ws
               ELSE main' = "closed"
                    /\ ws' = IF ws = "connected" THEN "closed" ELSE ws
       ELSE /\ main' = "closed"
            /\ ws' = IF ws = "connected" THEN "closed" ELSE ws
            /\ UNCHANGED << final, finish_calls, outbound >>
    /\ UNCHANGED << exit_path, online, reader, read_size, pcm_buffer,
                    full_transcription, inbox, reads, frames, calls >>
    /\ UNCHANGED << given, returned >>

\* The await of the final send_json completes and the endpoint returns; the
\* server closes the connection.
Return ==
    /\ main = "final_sent"
    /\ main' = "closed"
    /\ ws' = IF ws = "connected" THEN "closed" ELSE ws
    /\ UNCHANGED << exit_path, ffmpeg_process, online, reader, read_size,
                    pcm_buffer, full_transcription, inbox, outbound, final,
                    finish_calls, stop_calls, reads, frames, calls >>
    /\ UNCHANGED << given, returned >>

----------------------------------------------------------------------------
(* ffmpeg_stdout_reader *)

\* Top of the loop: read_size is computed and the read is handed to the
\* executor; reading a closed stdout raises and the except clause breaks.
ReaderStartRead ==
    /\ reader = "top"
    /\ EndpointSuspended
    /\ reads < MaxReads
    /\ reads' = reads + 1
    /\ \E dt \in Elapsed :
        IF ffmpeg_process.stdout_closed
        THEN reader' = "done" /\ UNCHANGED read_size
        ELSE reader' = "reading" /\ read_size' = ReadSize(dt)
    /\ UNCHANGED << main, exit_path, ffmpeg_process, online, pcm_buffer,
                    full_transcription, ws, inbox, outbound, final, finish_calls,
                    stop_calls, frames, calls >>
    /\ UNCHANGED << given, returned >>

\* The read raises (stdout closed under it), and the except clause breaks.
ReaderReadError ==
    /\ reader = "reading"
    /\ EndpointSuspended
    /\ ffmpeg_process.stdout_closed
    /\ reader' = "done"
    /\ read_size' = 0
    /\ UNCHANGED << main, exit_path, ffmpeg_process, online, pcm_buffer,
                    full_transcription, ws, inbox, outbound, final, finish_calls,
                    stop_calls, reads, frames, calls >>
    /\ UNCHANGED << given, returned >>

\* An iteration in which the engine's exception surfaces only after the
\* Hypothesis Buffer and the history were updated.
ReaderIterationRaisesLate(n, result, raises) ==
    IF n = 0
    THEN /\ reader' = "done"
         /\ UNCHANGED << online, pcm_buffer, full_transcription, outbound, calls >>
    ELSE IF pcm_buffer + n < BYTES_PER_SEC
    THEN /\ pcm_buffer' = pcm_buffer + n
         /\ reader' = "top"
         /\ UNCHANGED << online, full_transcription, outbound, calls >>
    ELSE IF (pcm_buffer + n) % BYTES_PER_SAMPLE # 0
    THEN \* np.frombuffer raises ValueError
         /\ pcm_buffer' = pcm_buffer + n
         /\ reader' = "done"
         /\ UNCHANGED << online, full_transcription, outbound, calls >>
    ELSE LET o1 == insert_audio_chunk(online, (pcm_buffer + n) \div BYTES_PER_SAMPLE)
             r == process_iter(o1, result)
             buffer_text == to_flush(r.online.transcript_buffer.buffer)[3]
             full == UpdateFull(full_transcription, r.ret[3])
         IN  /\ pcm_buffer' = 0
             /\ calls' = calls + 1
             /\ IF raises
                THEN /\ online' = r.online
                     /\ reader' = "done"
                     /\ UNCHANGED << full_transcription, outbound >>
                ELSE /\ online' = r.online
                     /\ full_transcription' = full
                     /\ IF ws = "connected"
                        THEN /\ outbound' = Append(outbound, Response(r.ret, buffer_text, full))
                             /\ reader' = "top"
                        ELSE /\ reader' = "done"
                             /\ UNCHANGED outbound

\* The rest of one loop iteration once the read has returned n bytes, with
\* the engine returning result, or raising when raises.
ReaderIteration(n, result, raises) ==
    IF n = 0
    THEN /\ reader' = "done"
         /\ UNCHANGED << online, pcm_buffer, full_transcription, outbound, calls >>
    ELSE IF pcm_buffer + n < BYTES_PER_SEC
    THEN /\ pcm_buffer' = pcm_buffer + n
         /\ reader' = "top"
         /\ UNCHANGED << online, full_transcription, outbound, calls >>
    ELSE IF (pcm_buffer + n) % BYTES_PER_SAMPLE # 0
    THEN \* np.frombuffer raises ValueError
         /\ pcm_buffer' = pcm_buffer + n
         /\ reader' = "done"
         /\ UNCHANGED << online, full_transcription, outbound, calls >>
    ELSE LET o1 == insert_audio_chunk(online, (pcm_buffer + n) \div BYTES_PER_SAMPLE)
             r == process_iter(o1, result)
             buffer_text == to_flush(r.online.transcript_buffer.buffer)[3]
             full == UpdateFull(full_transcription, r.ret[3])
         IN  /\ pcm_buffer' = 0
             /\ calls' = calls + 1
             /\ IF raises
                THEN /\ online' = o1
                     /\ reader' = "done"
                     /\ UNCHANGED << full_transcription, outbound >>
                ELSE /\ online' = r.online
                     /\ full_transcription' = full
                     /\ IF ws = "connected"
                        THEN /\ outbound' = Append(outbound, Response(r.ret, buffer_text, full))
                             /\ reader' = "top"
                        ELSE /\ reader' = "done"
                             /\ UNCHANGED outbound

\* The read returns: read_size bytes, or fewer at the end of the output.
ReaderReadReturn ==
    /\ reader = "reading"
    /\ EndpointSuspended
    /\ \E n \in (IF ffmpeg_process.eof THEN {0} ELSE {read_size} \cup ShortReads(read_size)) :
        /\ ffmpeg_process' = [ffmpeg_process EXCEPT !.eof = @ \/ n < read_size]
        /\ \E result \in Transcribe(insert_audio_chunk(online, (pcm_buffer + n) \div BYTES_PER_SAMPLE).audio_buffer),
              raises \in BOOLEAN :
            ReaderIteration(n, result, raises)
    /\ read_size' = 0
    /\ UNCHANGED << main, exit_path, ws, inbox, final, finish_calls, stop_calls,
                    reads, frames >>
    /\ UNCHANGED << given, returned >>

----------------------------------------------------------------------------
(* The client *)

ClientSend ==
    /\ ws = "connected"
    /\ frames < MaxFrames
    /\ frames' = frames + 1
    /\ \E kind \in {"bytes", "text"} : inbox' = Append(inbox, kind)
    /\ UNCHANGED << main, exit_path, ffmpeg_process, online, reader, read_size,
                    pcm_buffer, full_transcription, ws, outbound, final,
                    finish_calls, stop_calls, reads, calls >>
    /\ UNCHANGED << given, returned >>

ClientDisconnect ==
    /\ ws = "connected"
    /\ ws' = "disconnected"
    /\ UNCHANGED << main, exit_path, ffmpeg_process, online, reader, read_size,
                    pcm_buffer, full_transcription, inbox, outbound, final,
                    finish_calls, stop_calls, reads, frames, calls >>
    /\ UNCHANGED << given, returned >>

Next ==
    \/ StartDecoder
    \/ LoadModel
    \/ ReceiveFrame
    \/ ReceiveBadFrame
    \/ ReceiveDisconnect
    \/ Finally
    \/ Return
    \/ ReaderStartRead
    \/ ReaderReadError
    \/ ReaderReadReturn
    \/ ClientSend
    \/ ClientDisconnect

Spec == Init /\ [][Next]_vars

\* The event loop and the executor run every step of the endpoint and of the
\* reader task that is ready; nothing obliges the client to send or to leave.
FairSpec ==
    /\ Spec
    /\ WF_vars(StartDecoder)
    /\ WF_vars(LoadModel)
    /\ WF_vars(ReceiveFrame)
    /\ WF_vars(ReceiveBadFrame)
    /\ WF_vars(ReceiveDisconnect)
    /\ WF_vars(Finally)
    /\ WF_vars(Return)
    /\ WF_vars(ReaderStartRead)
    /\ WF_vars(ReaderReadError)
    /\ WF_vars(ReaderReadReturn)

----------------------------------------------------------------------------
(* The session with its threads and pipes: the event loop's thread runs the
   endpoint and the reader task, one at a time and until the next await; the
   executor's thread runs the read of the decoder's output; the decoder
   process moves bytes from its input pipe to its output pipe. Spec above
   takes every write and every process_iter call to return at once. *)

\* The event loop's thread is free to resume a coroutine: it is neither
\* inside the reader task's process_iter call nor inside the endpoint's
\* stdin.write / stdin.flush.
LoopFree == reader # "transcribing" /\ main # "writing"

\* message = await websocket.receive_bytes(); stdin.write(message);
\* stdin.flush(): the calls return once the pipe has taken the whole frame,
\* and block the thread as long as it has not; they raise when the decoder
\* has gone.
IOReceiveFrame ==
    /\ LoopFree
    /\ main = "receive"
    /\ Len(inbox) > 0
    /\ Head(inbox) = "bytes"
    /\ inbox' = Tail(inbox)
    /\ \/ /\ ~ffmpeg_process.stdin_full
          /\ \E full \in BOOLEAN :
                ffmpeg_process' = [ffmpeg_process EXCEPT !.stdin_full = full]
          /\ UNCHANGED << main, exit_path >>
       \/ /\ ffmpeg_process' = [ffmpeg_process EXCEPT !.stdin_full = TRUE]
          /\ main' = "writing"
          /\ UNCHANGED exit_path
       \/ /\ main' = "finally"
          /\ exit_path' = "error"
          /\ UNCHANGED ffmpeg_process
    /\ UNCHANGED << online, reader, read_size, pcm_buffer, full_transcription, ws,
                    outbound, final, finish_calls, stop_calls, reads, frames,
                    calls >>
    /\ UNCHANGED << given, returned >>

\* The blocked write goes on when the pipe has room again: the rest of the
\* frame fits and the call returns, or the pipe is full once more.
IOWriteProgress ==
    /\ main = "writing"
    /\ ~ffmpeg_process.stdin_full
    /\ \/ /\ main' = "receive"
          /\ \E full \in BOOLEAN :
                ffmpeg_process' = [ffmpeg_process EXCEPT !.stdin_full = full]
       \/ /\ ffmpeg_process' = [ffmpeg_process EXCEPT !.stdin_full = TRUE]
          /\ UNCHANGED main
    /\ UNCHANGED << exit_path, online, reader, read_size, pcm_buffer,
                    full_transcription, ws, inbox, outbound, final, finish_calls,
                    stop_calls, reads, frames, calls >>
    /\ UNCHANGED << given, returned >>

\* The decoder process takes input from its full stdin pipe and writes the
\* decoded samples to its stdout pipe, which it may fill; it waits while
\* that pipe is full.
IODecode ==
    /\ ffmpeg_process # NoneObj
    /\ ~ffmpeg_process.stdout_closed
    /\ ffmpeg_process.stdin_full
    /\ ~ffmpeg_process.stdout_full
    /\ \E full \in BOOLEAN :
        ffmpeg_process' = [ffmpeg_process EXCEPT !.stdin_full = FALSE,
                                                 !.stdout_full = full]
    /\ UNCHANGED << main, exit_path, online, reader, read_size, pcm_buffer,
                    full_transcription, ws, inbox, outbound, final, finish_calls,
                    stop_calls, reads, frames, calls >>
    /\ UNCHANGED << given, returned >>

\* ffmpeg_process.stdout.read(read_size) returns in the executor's thread,
\* having taken its bytes from the pipe; the reader task is resumed with the
\* chunk once the event loop's thread is free.
IOThreadRead ==
    /\ reader = "reading"
    /\ ~ffmpeg_process.stdout_closed
    /\ \E n \in (IF ffmpeg_process.eof THEN {0} ELSE {read_size} \cup ShortReads(read_size)) :
        /\ ffmpeg_process' = [ffmpeg_process EXCEPT !.eof = @ \/ n < read_size,
                                                    !.stdout_full = @ /\ n = 0]
        /\ returned' = [call |-> "read", ret |-> n]
    /\ reader' = "read_done"
    /\ read_size' = 0
    /\ UNCHANGED << main, exit_path, online, pcm_buffer, full_transcription, ws,
                    inbox, outbound, final, finish_calls, stop_calls, reads,
                    frames, calls, given >>

\* The reader task resumes with the chunk: it ends or goes back to the top
\* of the loop, or calls process_iter, which keeps the thread until the
\* engine has returned.
IOReaderResume ==
    /\ reader = "read_done"
    /\ EndpointSuspended
    /\ LET n == returned.ret
       IN  IF n = 0 \/ pcm_buffer + n < BYTES_PER_SEC
                   \/ (pcm_buffer + n) % BYTES_PER_SAMPLE # 0
           THEN /\ ReaderIteration(n, Stable(online.audio_buffer), FALSE)
                /\ returned' = NoneObj
           ELSE /\ reader' = "transcribing"
                /\ UNCHANGED << online, pcm_buffer, full_transcription, outbound,
                                calls, returned >>
    /\ UNCHANGED << main, exit_path, ffmpeg_process, read_size, ws, inbox, final,
                    finish_calls, stop_calls, reads, frames, given >>

\* process_iter returns or raises, and the iteration runs to its end.
IOTranscribed ==
    /\ reader = "transcribing"
    /\ LET n == returned.ret
       IN  \E result \in Transcribe(insert_audio_chunk(online, (pcm_buffer + n) \div BYTES_PER_SAMPLE).audio_buffer),
              raises \in BOOLEAN :
            ReaderIteration(n, result, raises)
    /\ returned' = NoneObj
    /\ UNCHANGED << main, exit_path, ffmpeg_process, read_size, ws, inbox, final,
                    finish_calls, stop_calls, reads, frames, given >>

IOReceiveBadFrame == LoopFree /\ ReceiveBadFrame

IOReceiveDisconnect == LoopFree /\ ReceiveDisconnect

IOReturn == LoopFree /\ Return

NextIO ==
    \/ StartDecoder
    \/ LoadModel
    \/ IOReceiveFrame
    \/ IOWriteProgress
    \/ IOReceiveBadFrame
    \/ IOReceiveDisconnect
    \/ Finally
    \/ IOReturn
    \/ IODecode
    \/ ReaderStartRead
    \/ ReaderReadError
    \/ IOThreadRead
    \/ IOReaderResume
    \/ IOTranscribed
    \/ ClientSend
    \/ ClientDisconnect

SpecIO == Init /\ [][NextIO]_vars

----------------------------------------------------------------------------
(* An OnlineASRProcessor driven directly through its methods, in any order *)

\* Chunk lengths (samples) handed to insert_audio_chunk.
ProcChunks == {16001, 80000}

InitProc ==
    /\ main = "direct"
    /\ exit_path = "none"
    /\ ffmpeg_process = NoneObj
    /\ online = OnlineInit
    /\ reader = "none"
    /\ read_size = 0
    /\ pcm_buffer = 0
    /\ full_transcription = << >>
    /\ ws = "connected"
    /\ inbox = << >>
    /\ outbound = << >>
    /\ final = << None, None, << >> >>
    /\ finish_calls = 0
    /\ stop_calls = 0
    /\ reads = 0
    /\ frames = 0
    /\ calls = 0
    /\ given = NoneObj
    /\ returned = NoneObj

ProcInsert ==
    /\ \E n \in ProcChunks :
        /\ reads < MaxInserts
        /\ reads' = reads + 1
        /\ online' = insert_audio_chunk(online, n)
    /\ returned' = [call |-> "insert_audio_chunk", ret |-> << >>]
    /\ UNCHANGED << main, exit_path, ffmpeg_process, reader, read_size, pcm_buffer,
                    full_transcription, ws, inbox, outbound, final, finish_calls,
                    stop_calls, frames, calls, given >>

ProcProcessIter ==
    /\ calls < MaxCalls
    /\ calls' = calls + 1
    /\ \E result \in Transcribe(online.audio_buffer) :
        LET r == process_iter(online, result)
        IN  /\ online' = r.online
            /\ returned' = [call |-> "process_iter", ret |-> r.ret,
                            asr_calls |-> r.asr_calls]
    /\ UNCHANGED << sessionVars, given >>

ProcFinish ==
    /\ returned' = [call |-> "finish", ret |-> finish(online)]
    /\ UNCHANGED << sessionVars, online, calls, given >>

NextProc ==
    \/ ProcInsert
    \/ ProcProcessIter
    \/ ProcFinish

SpecProc == InitProc /\ [][NextProc]_vars

----------------------------------------------------------------------------
(* A HypothesisBuffer driven directly: flush on any provisional and incoming *)

MaxLen == 3             \* longest provisional or incoming sequence drawn

\* Tokens the sequences are drawn from: two texts, two time spans.
Tokens ==
    { << 0, 16000, <<"h">> >>, << 0, 16000, <<"w">> >>,
      << 16000, 32000, <<"h">> >>, << 20000, 36000, <<"w">> >> }

TokenSeqs == UNION { [1..n -> Tokens] : n \in 0..MaxLen }

\* commited_in_buffer before the call: nothing, or one word of an earlier flush
Recent == { << >>, << << 0, 16000, <<"h">> >> >> }

InitFlush ==
    /\ main = "flush"
    /\ exit_path = "none"
    /\ ffmpeg_process = NoneObj
    /\ online = NoneObj
    /\ reader = "none"
    /\ read_size = 0
    /\ pcm_buffer = 0
    /\ full_transcription = << >>
    /\ ws = "connected"
    /\ inbox = << >>
    /\ outbound = << >>
    /\ final = << None, None, << >> >>
    /\ finish_calls = 0
    /\ stop_calls = 0
    /\ reads = 0
    /\ frames = 0
    /\ calls = 0
    /\ \E P \in TokenSeqs, N \in TokenSeqs, C \in Recent :
        given = [HypothesisBufferInit EXCEPT !.buffer = P, !.new = N,
                                             !.commited_in_buffer = C]
    /\ returned = NoneObj

\* o = transcript_buffer.flush() on the drawn buffer
FlushCall ==
    /\ main = "flush"
    /\ main' = "flushed"
    /\ returned' = flush(given)
    /\ UNCHANGED << exit_path, ffmpeg_process, online, reader, read_size, pcm_buffer,
                    full_transcription, ws, inbox, outbound, final, finish_calls,
                    stop_calls, reads, frames, calls, given >>

NextFlush == FlushCall

SpecFlush == InitFlush /\ [][NextFlush]_vars

----------------------------------------------------------------------------
(* The size of one decoder read, for any two clock readings *)

MaxTenths == 25         \* latest clock reading drawn, in tenths of a second

InitRead ==
    /\ main = "read"
    /\ exit_path = "none"
    /\ ffmpeg_process = NoneObj
    /\ online = NoneObj
    /\ reader = "top"
    /\ read_size = 0
    /\ pcm_buffer = 0
    /\ full_transcription = << >>
    /\ ws = "connected"
    /\ inbox = << >>
    /\ outbound = << >>
    /\ final = << None, None, << >> >>
    /\ finish_calls = 0
    /\ stop_calls = 0
    /\ reads = 0
    /\ frames = 0
    /\ calls = 0
    /\ \E t0 \in 0..MaxTenths, t1 \in 0..MaxTenths :
        /\ t0 <= t1
        /\ given = [last_time |-> t0, time |-> t1]
    /\ returned = NoneObj

\* elapsed = max(0.1, time() - last_time); read_size = min(...)
ReadSizeCall ==
    /\ main = "read"
    /\ main' = "sized"
    /\ read_size' = ReadSize(given.time - given.last_time)
    /\ reader' = "reading"
    /\ UNCHANGED << exit_path, ffmpeg_process, online, pcm_buffer,
                    full_transcription, ws, inbox, outbound, final, finish_calls,
                    stop_calls, reads, frames, calls, given, returned >>

NextRead == ReadSizeCall

SpecRead == InitRead /\ [][NextRead]_vars

----------------------------------------------------------------------------
(* _load_model called by live sessions and by file uploads *)

MaxLoads == 2           \* calls of _load_model per caller

\* Two live sessions and one upload handler; all are coroutines of one loop.
Callers == {"session1", "session2", "upload"}

\* Both callers are async handlers that call _load_model without awaiting
\* anything inside it: while one call runs, no other handler runs.
LoaderFreeAlways == TRUE

LoaderFree == \A c \in Callers : given.pc[c] = "idle"

InitLoad ==
    /\ main = "loader"
    /\ exit_path = "none"
    /\ ffmpeg_process = NoneObj
    /\ online = NoneObj
    /\ reader = "none"
    /\ read_size = 0
    /\ pcm_buffer = 0
    /\ full_transcription = << >>
    /\ ws = "connected"
    /\ inbox = << >>
    /\ outbound = << >>
    /\ final = << None, None, << >> >>
    /\ finish_calls = 0
    /\ stop_calls = 0
    /\ reads = 0
    /\ frames = 0
    /\ calls = 0
    /\ given = [_model |-> None, constructed |-> 0,
                pc |-> [c \in Callers |-> "idle"],
                n |-> [c \in Callers |-> 0]]
    /\ returned = NoneObj

\* A call starts: return the loaded engine, or fail on the import, or go on
\* to construct one.
LoadEnter(c) ==
    /\ main = "loader"
    /\ LoaderFree
    /\ given.pc[c] = "idle"
    /\ given.n[c] < MaxLoads
    /\ IF given._model # None
       THEN /\ given' = [given EXCEPT !.n[c] = @ + 1]
            /\ returned' = [call |-> "_load_model", caller |-> c, nth |-> given.n[c] + 1,
                            ret |-> given._model, constructs |-> FALSE]
       ELSE \/ /\ given' = [given EXCEPT !.n[c] = @ + 1]
               /\ returned' = [call |-> "_load_model", caller |-> c, nth |-> given.n[c] + 1,
                               ret |-> "RuntimeError", constructs |-> FALSE]
            \/ /\ given' = [given EXCEPT !.n[c] = @ + 1, !.pc[c] = "loading"]
               /\ UNCHANGED returned
    /\ UNCHANGED << main, exit_path, ffmpeg_process, online, reader, read_size,
                    pcm_buffer, full_transcription, ws, inbox, outbound, final,
                    finish_calls, stop_calls, reads, frames, calls >>

\* whisper.load_model returns a new engine, or raises.
LoadConstruct(c) ==
    /\ main = "loader"
    /\ given.pc[c] = "loading"
    /\ \/ /\ given' = [given EXCEPT !._model = given.constructed + 1,
                                     !.constructed = @ + 1,
                                     !.pc[c] = "idle"]
          /\ returned' = [call |-> "_load_model", caller |-> c, nth |-> given.n[c],
                          ret |-> given.constructed + 1, constructs |-> TRUE]
       \/ /\ given' = [given EXCEPT !.pc[c] = "idle"]
          /\ returned' = [call |-> "_load_model", caller |-> c, nth |-> given.n[c],
                          ret |-> "RuntimeError", constructs |-> FALSE]
    /\ UNCHANGED << main, exit_path, ffmpeg_process, online, reader, read_size,
                    pcm_buffer, full_transcription, ws, inbox, outbound, final,
                    finish_calls, stop_calls, reads, frames, calls >>

NextLoad == \E c \in Callers : LoadEnter(c) \/ LoadConstruct(c)

SpecLoad == InitLoad /\ [][NextLoad]_vars

----------------------------------------------------------------------------
(* _extract_words driven directly on any engine result *)

MaxSegs == 2            \* most segments in a drawn engine result

\* The words of a segment that carries word-level timestamps.
SegWords ==
    << [start |-> 0, end |-> 8000, word |-> <<"h">>],
       [start |-> 8000, end |-> 16000, word |-> <<"w">>] >>

\* A segment with text only, one with words, and one the engine has cleared.
SegShapes ==
    { [text |-> <<"t">>, words |-> << >>],
      [text |-> <<"t">>, words |-> SegWords],
      [text |-> << >>, words |-> << >>] }

\* No-speech probabilities (hundredths) around the threshold, or no field.
NoSpeechProbs == {None, 90, 91}

SegmentKinds ==
    { [start |-> 0, end |-> 16000, text |-> sh.text, no_speech_prob |-> p,
       words |-> sh.words] : sh \in SegShapes, p \in NoSpeechProbs }

SegmentSeqs == UNION { [1..n -> SegmentKinds] : n \in 0..MaxSegs }

\* The texts an engine result may carry for segments segs: the text of the
\* segments, no text, or, without segmentation, one recognized text.
ResultTexts(segs) ==
    {Join(SegTexts(segs)), << >>} \cup (IF Len(segs) = 0 THEN {<<"t">>} ELSE {})

InitExtract ==
    /\ main = "extract"
    /\ exit_path = "none"
    /\ ffmpeg_process = NoneObj
    /\ online = insert_audio_chunk(OnlineInit, SAMPLING_RATE)
    /\ reader = "none"
    /\ read_size = 0
    /\ pcm_buffer = 0
    /\ full_transcription = << >>
    /\ ws = "connected"
    /\ inbox = << >>
    /\ outbound = << >>
    /\ final = << None, None, << >> >>
    /\ finish_calls = 0
    /\ stop_calls = 0
    /\ reads = 0
    /\ frames = 0
    /\ calls = 0
    /\ \E segs \in SegmentSeqs : \E text \in ResultTexts(segs) :
        given = [text |-> text, segments |-> segs]
    /\ returned = NoneObj

\* tsw = self._extract_words(result) on the drawn result
ExtractCall ==
    /\ main = "extract"
    /\ main' = "extracted"
    /\ returned' = [call |-> "_extract_words", ret |-> extract_words(online, given)]
    /\ UNCHANGED << exit_path, ffmpeg_process, online, reader, read_size, pcm_buffer,
                    full_transcription, ws, inbox, outbound, final, finish_calls,
                    stop_calls, reads, frames, calls, given >>

NextExtract == ExtractCall

SpecExtract == InitExtract /\ [][NextExtract]_vars

----------------------------------------------------------------------------
(* _get_prompt driven directly on any Committed History and offset *)

MaxHist == 12           \* longest Committed History drawn

\* One letter per position of the history, so that every entry has its own text.
Letters == << "a", "b", "c", "d", "e", "f", "g", "h", "i", "j", "k", "l", "m", "n" >>

\* Entry texts of one character and of twenty.
TextLens == {1, 20}

\* A history of n entries, one per second from base on, texts of len letters.
History(n, base, len) ==
    [i \in 1..n |-> << base + (i - 1) * SAMPLING_RATE, base + i * SAMPLING_RATE,
                       [j \in 1..len |-> Letters[i]] >>]

\* The first committed word starts with the stream or half a second in.
HistoryBases == {0, SAMPLING_RATE \div 2}

InitPrompt ==
    /\ main = "prompt"
    /\ exit_path = "none"
    /\ ffmpeg_process = NoneObj
    /\ online = NoneObj
    /\ reader = "none"
    /\ read_size = 0
    /\ pcm_buffer = 0
    /\ full_transcription = << >>
    /\ ws = "connected"
    /\ inbox = << >>
    /\ outbound = << >>
    /\ final = << None, None, << >> >>
    /\ finish_calls = 0
    /\ stop_calls = 0
    /\ reads = 0
    /\ frames = 0
    /\ calls = 0
    /\ \E n \in 0..MaxHist, base \in HistoryBases, len \in TextLens, secs \in 0..MaxHist :
        given = [OnlineInit EXCEPT !.commited = History(n, base, len),
                                   !.buffer_time_offset = secs * SAMPLING_RATE]
    /\ returned = NoneObj

\* prompt = self._get_prompt() on the drawn processor
PromptCall ==
    /\ main = "prompt"
    /\ main' = "prompted"
    /\ returned' = [call |-> "_get_prompt", ret |-> get_prompt(given)]
    /\ UNCHANGED << exit_path, ffmpeg_process, online, reader, read_size, pcm_buffer,
                    full_transcription, ws, inbox, outbound, final, finish_calls,
                    stop_calls, reads, frames, calls, given >>

NextPrompt == PromptCall

SpecPrompt == InitPrompt /\ [][NextPrompt]_vars

----------------------------------------------------------------------------
(* Properties *)

\* Length of the longest front-aligned run on which the texts of P and N agree.
CommonPrefixLen(P, N) ==
    CHOOSE k \in 0..Min(Len(P), Len(N)) :
        /\ \A i \in 1..k : P[i][3] = N[i][3]
        /\ k = Min(Len(P), Len(N)) \/ P[k + 1][3] # N[k + 1][3]

\* C1: flush returns exactly N[1..k], k the first position at which the texts
\* of provisional P and incoming N differ or one of them ends; nothing after
\* the first mismatch is committed, and nothing at all when P is empty.
C1_FlushCommitsCommonPrefix ==
    main = "flushed" =>
        /\ returned.commit = SubSeq(given.new, 1, CommonPrefixLen(given.buffer, given.new))
        /\ Len(given.buffer) = 0 => returned.commit = << >>

\* A flush that stopped at a mismatch although a later position agrees again,
\* on tokens whose timestamps differ from the provisional ones.
C1_Witness ==
    /\ main = "flushed"
    /\ Len(given.buffer) = 3 /\ Len(given.new) = 3
    /\ Len(returned.commit) = 1
    /\ given.buffer[1] # given.new[1]
    /\ given.buffer[2][3] # given.new[2][3]
    /\ given.buffer[3][3] = given.new[3][3]

\* C2: the Committed History is ordered in time: each committed token starts
\* and ends no earlier than the one committed before it.
C2_CommittedTimesMonotonic ==
    \A i \in 1..(Len(online.commited) - 1) :
        /\ online.commited[i + 1][1] >= online.commited[i][1]
        /\ online.commited[i + 1][2] >= online.commited[i][2]

FinalsSent == {i \in DOMAIN outbound : outbound[i].final}

\* C3: after a client disconnect, a non-empty finish() text is still sent as
\* the final message during teardown.
C3_FinalSentAfterDisconnect ==
    (main = "closed" /\ exit_path = "disconnect" /\ Len(final[3]) > 0)
        => FinalsSent # {}

\* C4: at most one message marked final is sent and finish() is called at
\* most once, on every exit path.
C4_AtMostOneFinal ==
    /\ Cardinality(FinalsSent) <= 1
    /\ finish_calls <= 1

\* A session torn down after an ingest error, finish() called and its text
\* sent as the final message.
C4_Witness ==
    /\ main = "closed"
    /\ exit_path = "error"
    /\ finish_calls = 1
    /\ Cardinality(FinalsSent) = 1

\* C5: once the production loop has ended (decoder EOF or an error inside
\* it), the session leaves Streaming and is torn down, even if the client
\* stays connected and silent.
C5_ReaderEndLeadsToTeardown ==
    (reader = "done" /\ main = "receive") ~> (main = "closed")

\* C6: the stop sequence of a spawned decoder is executed exactly once per
\* session, on teardown, whichever exit path ended the session; it closes
\* both pipes.
C6_StopExactlyOnce ==
    /\ stop_calls <= 1
    /\ main \in {"start", "load", "receive", "finally"} => stop_calls = 0
    /\ (main \in {"final_sent", "closed"} /\ ffmpeg_process # NoneObj) =>
            /\ stop_calls = 1
            /\ ffmpeg_process.stdin_closed
            /\ ffmpeg_process.stdout_closed
    /\ ffmpeg_process = NoneObj => stop_calls = 0

\* The engine failed to load after the decoder was spawned, and the decoder
\* was stopped (here by kill, after the wait timed out).
C6_Witness ==
    /\ main = "closed"
    /\ exit_path = "setup"
    /\ ffmpeg_process # NoneObj
    /\ online = NoneObj
    /\ stop_calls = 1
    /\ ffmpeg_process.killed

\* C7: the full_text of every message sent is the cumulative committed
\* transcript at that moment: the texts of all tokens committed so far joined
\* by single spaces, followed in the final message by the finish() text.
C7_FullTextCumulative ==
    [][ Len(outbound') > Len(outbound) =>
            LET m == outbound'[Len(outbound')]
            IN  m.full_text =
                    IF m.final
                    THEN Join(Texts(online'.commited \o complete(online'.transcript_buffer)))
                    ELSE Join(Texts(online'.commited)) ]_vars

\* C8: in every message of the production loop, timestamp is null exactly
\* when transcript is empty.
C8_TimestampIffTranscript ==
    \A i \in DOMAIN outbound :
        ~outbound[i].final =>
            ((outbound[i].timestamp = NoTimestamp) <=> (Len(outbound[i].transcript) = 0))

\* C9: the message marked final is the last message of its session.
C9_FinalIsTerminal ==
    \A i \in DOMAIN outbound : outbound[i].final => i = Len(outbound)

\* C10: buffer_time_offset never decreases.
C10_OffsetNeverDecreases ==
    [][online'.buffer_time_offset >= online.buffer_time_offset]_vars

\* The offset after two trims (each trim advances it by more than 10 s).
C10_Witness ==
    /\ online.buffer_time_offset > 2 * (buffer_trimming_sec - keep_duration) * SAMPLING_RATE
    /\ online.audio_buffer.lo > 0

\* C11: every trim keeps the newest keep_duration of audio: it removes at
\* most window_length - keep_duration * SAMPLING_RATE samples, all from the
\* front of the window, so that at least 5 s of the most recent samples stay.
C11_TrimKeepsNewest ==
    [][ online'.audio_buffer.lo # online.audio_buffer.lo =>
            LET n == WindowLen(online.audio_buffer)
                removed == online'.audio_buffer.lo - online.audio_buffer.lo
            IN  /\ removed > 0
                /\ removed <= n - keep_duration * SAMPLING_RATE
                /\ online'.audio_buffer.hi = online.audio_buffer.hi
                /\ WindowLen(online'.audio_buffer) >= keep_duration * SAMPLING_RATE ]_vars

\* A pass has just trimmed a window of 256001 samples, where the float
\* arithmetic cuts one sample less than trim_time: 80001 samples stay.
C11_Witness ==
    /\ returned # NoneObj
    /\ returned.call = "process_iter"
    /\ online.audio_buffer.lo > 0
    /\ WindowLen(online.audio_buffer) = keep_duration * SAMPLING_RATE + 1

\* C12: at the return of every process_iter call the audio window is at most
\* buffer_trimming_sec long, whether or not a token has been committed so far.
C12_WindowBoundedAfterPass ==
    (returned # NoneObj /\ returned.call = "process_iter") =>
        WindowLen(online.audio_buffer) <= buffer_trimming_sec * SAMPLING_RATE

\* C13: process_iter on an empty audio window returns (None, None, "")
\* without calling the ASR engine and leaves the Hypothesis Buffer, the
\* Committed History and buffer_time_offset as they were.
C13_EmptyWindowPass ==
    [][ (calls' # calls /\ WindowLen(online.audio_buffer) = 0) =>
            /\ returned'.call = "process_iter"
            /\ returned'.ret = << None, None, << >> >>
            /\ returned'.asr_calls = 0
            /\ online'.transcript_buffer = online.transcript_buffer
            /\ online'.commited = online.commited
            /\ online'.buffer_time_offset = online.buffer_time_offset ]_vars

\* process_iter has just returned on a processor that holds no audio.
C13_Witness ==
    /\ returned # NoneObj
    /\ returned.call = "process_iter"
    /\ calls > 0
    /\ WindowLen(online.audio_buffer) = 0

\* The tokens a segment has to offer: its words, or else its own span and text.
OwnTokens(s) ==
    IF Len(s.words) > 0
    THEN [i \in 1..Len(s.words) |-> << s.words[i].start, s.words[i].end, s.words[i].word >>]
    ELSE << << s.start, s.end, s.text >> >>

RECURSIVE Concat(_)
Concat(seqs) == IF Len(seqs) = 0 THEN << >> ELSE Head(seqs) \o Concat(Tail(seqs))

\* The tokens of the segments whose no-speech probability is at most 0.9 (or
\* absent), segment after segment.
SpeechTokens(segs) ==
    LET speech(s) == s.no_speech_prob = None \/ s.no_speech_prob <= 90
        kept == SelectSeq(segs, speech)
    IN  Concat([i \in 1..Len(kept) |-> OwnTokens(kept[i])])

\* C14 (as claimed): for every segmented engine result, the tokens extracted
\* are those of the segments with no-speech probability <= 0.9 (or without
\* the field), in order, and none of a segment with probability > 0.9.
C14_SpeechSegmentsContribute ==
    (main = "extracted" /\ Len(given.segments) > 0) =>
        returned.ret = SpeechTokens(given.segments)

\* C14 (amended): the same for every segmented engine result whose text is
\* not empty; a result with an empty text yields no token at all.
C14_SpeechSegmentsContributeGivenText ==
    main = "extracted" =>
        /\ (Len(given.segments) > 0 /\ Len(given.text) > 0) =>
                returned.ret = SpeechTokens(given.segments)
        /\ Len(given.text) = 0 => returned.ret = << >>

\* A result of two segments with words: the first, at probability 0.91, gave
\* nothing, the second, at exactly 0.9, gave its two words.
C14_Witness ==
    /\ main = "extracted"
    /\ Len(given.segments) = 2
    /\ Len(given.text) > 0
    /\ given.segments[1].no_speech_prob = 91 /\ given.segments[1].words = SegWords
    /\ given.segments[2].no_speech_prob = 90 /\ given.segments[2].words = SegWords
    /\ Len(returned.ret) = 2

\* C15: finish() returns the provisional tokens of the Hypothesis Buffer as
\* (start of the first, end of the last, their texts joined by single
\* spaces), (None, None, "") when there is none, the very text of a lone
\* provisional token, and changes nothing in the processor.
C15_FinishReturnsProvisional ==
    [][ (returned' # NoneObj /\ returned'.call = "finish") =>
            LET P == online.transcript_buffer.buffer
            IN  /\ Len(P) = 0 => returned'.ret = << None, None, << >> >>
                /\ Len(P) = 1 => returned'.ret = P[1]
                /\ Len(P) > 0 =>
                        /\ returned'.ret[1] = P[1][1]
                        /\ returned'.ret[2] = P[Len(P)][2]
                        /\ returned'.ret[3] = Join([i \in 1..Len(P) |-> P[i][3]])
                /\ online' = online ]_vars

\* finish() has returned two provisional tokens as one text with a space
\* between them.
C15_Witness ==
    /\ returned # NoneObj
    /\ returned.call = "finish"
    /\ Len(online.transcript_buffer.buffer) = 2
    /\ returned.ret[3] = online.transcript_buffer.buffer[1][3] \o <<SP>>
                            \o online.transcript_buffer.buffer[2][3]

\* C16: the Committed History is append-only: every step leaves the history it
\* found as a prefix of the new one; a process_iter call extends it by exactly
\* the list its flush returned (the tokens its return value is made of), and
\* insert_audio_chunk and finish leave it alone, as do trimming and
\* pop_commited inside process_iter.
C16_HistoryAppendOnly ==
    [][ LET old == online.commited
            new == online'.commited
            added == SubSeq(new, Len(old) + 1, Len(new))
        IN  /\ Len(new) >= Len(old)
            /\ SubSeq(new, 1, Len(old)) = old
            /\ calls' = calls => new = old
            /\ calls' # calls =>
                    /\ returned'.ret = to_flush(added)
                    /\ WindowLen(online.audio_buffer) = 0 => added = << >>
                    /\ WindowLen(online.audio_buffer) > 0 =>
                            \E result \in Transcribe(online.audio_buffer) :
                                added = flush(insert(online.transcript_buffer,
                                                     extract_words(online, result),
                                                     online.buffer_time_offset)).commit ]_vars

\* A pass has committed tokens and trimmed the window; pop_commited has
\* dropped from the Hypothesis Buffer tokens that ended before the new
\* offset, and the history still holds them.
C16_Witness ==
    /\ returned # NoneObj
    /\ returned.call = "process_iter"
    /\ Len(returned.ret[3]) > 0
    /\ online.audio_buffer.lo > 0
    /\ Len(online.transcript_buffer.commited_in_buffer) < Len(online.commited)
    /\ \E i \in DOMAIN online.commited : online.commited[i][2] <= online.buffer_time_offset

\* C17: when the decoder spawn or the engine load fails, the session goes
\* straight to teardown: the reader task is never created and never reads,
\* the main loop never takes a frame from the client (so none is fed to a
\* decoder), no message is sent, finish() is not called, and a decoder that
\* was spawned has been stopped once teardown is over.
C17_SetupFailureAborts ==
    exit_path = "setup" =>
        /\ main \in {"finally", "closed"}
        /\ online = NoneObj
        /\ reader = "none"
        /\ reads = 0 /\ calls = 0
        /\ Len(inbox) = frames
        /\ outbound = << >>
        /\ finish_calls = 0
        /\ (main = "closed" /\ ffmpeg_process # NoneObj) =>
                /\ stop_calls = 1
                /\ ffmpeg_process.stdin_closed
                /\ ffmpeg_process.stdout_closed

\* The engine failed to load after the client had already sent a frame:
\* the session is closed, the decoder stopped, the frame still unread.
C17_Witness ==
    /\ exit_path = "setup"
    /\ main = "closed"
    /\ ffmpeg_process # NoneObj
    /\ stop_calls = 1
    /\ frames = 1
    /\ Len(inbox) = 1
    /\ ws = "closed"

\* C18: when the engine call raises inside process_iter (the one way an
\* iteration that called process_iter ends the reader while the client is
\* connected), the Committed History and the three sequences of the
\* Hypothesis Buffer are as before the call, and the iteration sends nothing.
C18_EngineFailureLeavesTranscript ==
    [][ (calls' # calls /\ reader' = "done" /\ ws = "connected") =>
            /\ online'.commited = online.commited
            /\ online'.transcript_buffer.commited_in_buffer
                    = online.transcript_buffer.commited_in_buffer
            /\ online'.transcript_buffer.buffer = online.transcript_buffer.buffer
            /\ online'.transcript_buffer.new = online.transcript_buffer.new
            /\ outbound' = outbound
            /\ full_transcription' = full_transcription ]_vars

\* The second pass of a session failed in the engine: one message was sent,
\* for the first pass, and the provisional tokens of that pass are still
\* there, in front of a window that holds the audio of both passes.
C18_Witness ==
    /\ reader = "done"
    /\ ws = "connected"
    /\ calls = 2
    /\ Len(outbound) = 1
    /\ Len(online.transcript_buffer.buffer) > 0
    /\ Len(online.commited) = 0
    /\ WindowLen(online.audio_buffer) >= 2 * SAMPLE_RATE

\* C19: while the reader task's process_iter call is in progress, the ingest
\* loop of the session can take a frame the client has sent and relay it to
\* the decoder.
C19_IngestFreeDuringTranscription ==
    (reader = "transcribing" /\ main = "receive"
        /\ Len(inbox) > 0 /\ Head(inbox) = "bytes")
        => ENABLED IOReceiveFrame

\* C20: the session is never in a state in which the ingest loop is blocked
\* in its write to a decoder whose input pipe is full, the decoder waits on
\* its full output pipe, and the reader task, its last read done, cannot run
\* to its next read.
C20_NoPipeDeadlock ==
    ~ ( /\ main = "writing"
        /\ ffmpeg_process.stdin_full
        /\ ffmpeg_process.stdout_full
        /\ reader \in {"top", "read_done"}
        /\ ~ENABLED ReaderStartRead
        /\ ~ENABLED IOReaderResume )

\* C21: once teardown has called finish(), the session's processor is left
\* alone: no insert_audio_chunk and no process_iter of the session runs any
\* more.
C21_NoPassAfterFinish ==
    [][ finish_calls > 0 => (calls' = calls /\ online' = online) ]_vars

\* The last n characters of text.
LastChars(text, n) ==
    IF Len(text) > n THEN SubSeq(text, Len(text) - n + 1, Len(text)) ELSE text

\* C22: the prompt is the final 200 characters of the texts, joined by single
\* spaces, of at most 10 history entries ending at the last entry that
\* starts at or before buffer_time_offset; it is empty when there is no such
\* entry.
C22_PromptFromLastTen ==
    main = "prompted" =>
        LET H == given.commited
            started == {i \in DOMAIN H : H[i][1] <= given.buffer_time_offset}
        IN  IF started = {} THEN returned.ret = << >>
            ELSE LET last == CHOOSE i \in started : \A j \in started : j <= i
                     first == IF last > 10 THEN last - 9 ELSE 1
                 IN  returned.ret =
                        LastChars(Join([i \in 1..(last - first + 1) |-> H[first + i - 1][3]]), 200)

\* C23: right after a trim no entry of confirmed_recent (commited_in_buffer)
\* ends at or before the new buffer_time_offset, and every entry that ends
\* after it has been kept, in order.
C23_TrimPrunesConfirmed ==
    [][ online'.audio_buffer.lo # online.audio_buffer.lo =>
            LET t == online'.buffer_time_offset
                later(e) == e[2] > t
                before == online.transcript_buffer.commited_in_buffer
                            \o SubSeq(online'.commited, Len(online.commited) + 1,
                                      Len(online'.commited))
            IN  /\ \A i \in DOMAIN online'.transcript_buffer.commited_in_buffer :
                        online'.transcript_buffer.commited_in_buffer[i][2] > t
                /\ online'.transcript_buffer.commited_in_buffer = SelectSeq(before, later) ]_vars

\* C24: flush partitions incoming: the returned commit list followed by the
\* new provisional is the incoming sequence as it was before the call, incoming
\* is empty afterwards, confirmed_recent (commited_in_buffer) is its previous
\* value extended by exactly the returned list, and nothing of the previous
\* provisional survives.
C24_FlushPartitionsIncoming ==
    main = "flushed" =>
        /\ returned.commit \o returned.hb.buffer = given.new
        /\ returned.hb.new = << >>
        /\ returned.hb.commited_in_buffer = given.commited_in_buffer \o returned.commit
        /\ returned.hb.buffer = SubSeq(given.new, Len(returned.commit) + 1, Len(given.new))

\* A flush that committed a word, left an unmatched rest of the old provisional
\* behind and carried an unconfirmed rest of incoming over, on a buffer that
\* already held a confirmed word.
C24_Witness ==
    /\ main = "flushed"
    /\ Len(returned.commit) = 1
    /\ Len(given.buffer) = 3
    /\ Len(returned.hb.buffer) = 2
    /\ given.buffer[2][3] # given.new[2][3]
    /\ Len(given.commited_in_buffer) = 1
    /\ Len(returned.hb.commited_in_buffer) = 2

\* C25: whatever the reads return, a read leaves the raw-byte queue either
\* grown and still below BYTES_PER_SEC with nothing handed over, or emptied
\* with all of it (at least BYTES_PER_SEC bytes, the old queue and the read)
\* handed to insert_audio_chunk as one sample per BYTES_PER_SAMPLE bytes; so
\* the queue is below BYTES_PER_SEC whenever a read starts, odd lengths included.
C25_QueueConvertedWhole ==
    [][ pcm_buffer' # pcm_buffer =>
            LET inserted == online'.audio_buffer.hi - online.audio_buffer.hi
            IN  \/ /\ pcm_buffer' > pcm_buffer
                   /\ pcm_buffer' < BYTES_PER_SEC
                   /\ online' = online
                \/ /\ pcm_buffer' = 0
                   /\ inserted * BYTES_PER_SAMPLE >= BYTES_PER_SEC
                   /\ inserted * BYTES_PER_SAMPLE > pcm_buffer
                   /\ inserted * BYTES_PER_SAMPLE <= pcm_buffer + read_size ]_vars

\* C26: for every time elapsed since the previous read, fractions of a second
\* included, the size one read asks for is 32000 bytes per elapsed second plus
\* 4096, held between 4096 and 64000.
C26_ReadSizeClamped ==
    main = "sized" =>
        LET dt == given.time - given.last_time
        IN  /\ read_size = Min(Max((32000 * dt) \div 10 + 4096, 4096), 64000)
            /\ read_size >= 4096
            /\ read_size <= 64000

\* C27: however the calls of _load_model by sessions and uploads interleave,
\* the engine constructor completes successfully at most once, and once an
\* engine is loaded every later call returns that same engine and constructs
\* nothing.
C27_EngineLoadedOnce ==
    [][ /\ given'.constructed <= 1
        /\ given._model # None =>
              /\ given'._model = given._model
              /\ given'.constructed = given.constructed
              /\ returned' # returned => returned'.ret = given._model ]_vars

\* After a failed attempt one session loaded the engine, and a later call by
\* the upload handler got that engine without constructing.
C27_Witness ==
    /\ main = "loader"
    /\ given.constructed = 1
    /\ given.n["session1"] = 2
    /\ given.n["session2"] = 1
    /\ returned # NoneObj
    /\ returned.caller = "upload"
    /\ returned.ret = given._model
    /\ ~returned.constructs

\* C28: in every state of a processor the offset of the window, in samples,
\* plus the length of the window is the number of samples inserted so far:
\* sample 0 of the window lies at absolute time buffer_time_offset.
C28_SampleAccounting ==
    main = "direct" =>
        online.buffer_time_offset + WindowLen(online.audio_buffer) = online.audio_buffer.hi

====
